---- MODULE Spec2Model ----
(***************************************************************************)
(* Smart Doctor Assistant: the appointment tools of backend/tools.py, the  *)
(* direct booking endpoints of backend/main.py, the calendar and email     *)
(* collaborators of backend/calendar_service.py / email_service.py, and    *)
(* the store of backend/models.py.                                         *)
(*                                                                         *)
(* Requests are served by any number of workers against one shared store   *)
(* and one shared external calendar; the code takes no lock and the        *)
(* models declare no uniqueness constraint on appointments, so each        *)
(* statement that reaches the store or a collaborator is one step here.    *)
(*                                                                         *)
(* Text values (time-slot labels, date strings) are sequences of character *)
(* codes, so that formatting, parsing and string ordering are computed.    *)
(***************************************************************************)
EXTENDS Integers, Sequences, FiniteSets, TLC

VARIABLES
    gcal_service,   \* tools.py:23  TRUE iff the process-wide calendar handle exists
    patients,       \* models.py:18 rows of table "patients"
    appointments,   \* models.py:42 rows of table "appointments"
    users,          \* models.py:6  rows of table "users"
    patient_user_id, \* models.py:23 Patient.user_id, as pairs <<patient id, user id>>
    events,         \* events this program created on the external calendar
    external_busy,  \* busy intervals put on the calendar out of band
    outbox,         \* appointment ids whose confirmation email was sent
    pc,             \* per worker: position in the handler it is running
    args,           \* per worker: the arguments of the running call
    loc,            \* per worker: the locals of the running call
    result,         \* per worker: what its last call returned (or how it ended)
    calls           \* number of calls started so far

store == <<patients, appointments>>
accounts == <<users, patient_user_id>>
calendar == <<events, external_busy>>
vars == <<gcal_service, patients, appointments, users, patient_user_id, events,
          external_busy, outbox, pc, args, loc, result, calls>>

----------------------------------------------------------------------------
(* Bounds *)

MaxCalls == 2

Workers == {"w1", "w2"}

----------------------------------------------------------------------------
(* Characters and text *)

CH_ZERO == 48
CH_COLON == 58
CH_HYPHEN == 45

Digit(d) == CH_ZERO + d
IsDigit(c) == c >= CH_ZERO /\ c <= CH_ZERO + 9

\* f"{n:02d}" for 0 <= n <= 99
Fmt02d(n) == <<Digit(n \div 10), Digit(n % 10)>>

\* str.split(sep): the parts between occurrences of sep (empty parts kept)
RECURSIVE SplitAcc(_, _, _, _)
SplitAcc(s, sep, cur, acc) ==
    IF s = <<>> THEN Append(acc, cur)
    ELSE IF Head(s) = sep THEN SplitAcc(Tail(s), sep, <<>>, Append(acc, cur))
    ELSE SplitAcc(Tail(s), sep, Append(cur, Head(s)), acc)

Split(s, sep) == SplitAcc(s, sep, <<>>, <<>>)

AllDigits(s) == s # <<>> /\ \A i \in 1..Len(s) : IsDigit(s[i])

\* int(s) for a text of decimal digits
RECURSIVE IntOfAcc(_, _)
IntOfAcc(s, acc) ==
    IF s = <<>> THEN acc ELSE IntOfAcc(Tail(s), 10 * acc + (Head(s) - CH_ZERO))

IntOf(s) == IntOfAcc(s, 0)

\* Python's ordering of str: lexicographic by code point
RECURSIVE StrLess(_, _)
StrLess(a, b) ==
    IF b = <<>> THEN FALSE
    ELSE IF a = <<>> THEN TRUE
    ELSE IF Head(a) # Head(b) THEN Head(a) < Head(b)
    ELSE StrLess(Tail(a), Tail(b))

\* list.sort() on a list of str (stable insertion into a sorted prefix)
RECURSIVE InsertSorted(_, _)
InsertSorted(x, s) ==
    IF s = <<>> THEN <<x>>
    ELSE IF StrLess(x, Head(s)) THEN <<x>> \o s
    ELSE <<Head(s)>> \o InsertSorted(x, Tail(s))

RECURSIVE SortStr(_)
SortStr(s) == IF s = <<>> THEN <<>> ELSE InsertSorted(Head(s), SortStr(Tail(s)))

Range(s) == {s[i] : i \in 1..Len(s)}

----------------------------------------------------------------------------
(* Dates and instants *)

IsLeap(y) == (y % 4 = 0 /\ y % 100 # 0) \/ y % 400 = 0

DaysInMonth(y, m) ==
    IF m = 2 THEN (IF IsLeap(y) THEN 29 ELSE 28)
    ELSE IF m \in {4, 6, 9, 11} THEN 30 ELSE 31

RECURSIVE DaysBeforeMonth(_, _)
DaysBeforeMonth(y, m) ==
    IF m = 1 THEN 0 ELSE DaysBeforeMonth(y, m - 1) + DaysInMonth(y, m - 1)

\* date.toordinal(): days since 0001-01-01, that day being 1
ToOrdinal(d) ==
    LET y1 == d[1] - 1
    IN  y1 * 365 + (y1 \div 4) - (y1 \div 100) + (y1 \div 400)
        + DaysBeforeMonth(d[1], d[2]) + d[3]

MINUTES_PER_DAY == 1440
SLOT_MINUTES == 30

\* A naive datetime is [date |-> <<y, m, d>>, minutes |-> minutes since midnight].
\* datetime.combine(date, time(h, m, 0))
Combine(d, h, m) == [date |-> d, minutes |-> h * 60 + m]

\* A date bound to the DateTime column appointment_date: midnight of that day
DateAsDateTime(d) == [date |-> d, minutes |-> 0]

\* minutes on the naive time line
NaiveMinutes(dt) == ToOrdinal(dt.date) * MINUTES_PER_DAY + dt.minutes

\* datetime.strptime(s, "%Y-%m-%d").date(): <<TRUE, date>> or <<FALSE, _>> (ValueError)
NoDate == <<0, 0, 0>>

StrptimeDate(s) ==
    LET parts == Split(s, CH_HYPHEN)
    IN  IF Len(parts) # 3 THEN <<FALSE, NoDate>>
        ELSE LET ys == parts[1]
                 ms == parts[2]
                 ds == parts[3]
             IN  IF ~(Len(ys) = 4 /\ AllDigits(ys)) THEN <<FALSE, NoDate>>
                 ELSE IF ~(Len(ms) \in {1, 2} /\ AllDigits(ms)) THEN <<FALSE, NoDate>>
                 ELSE IF ~(Len(ds) \in {1, 2} /\ AllDigits(ds)) THEN <<FALSE, NoDate>>
                 ELSE LET y == IntOf(ys)
                          m == IntOf(ms)
                          d == IntOf(ds)
                      IN  IF y < 1 \/ m < 1 \/ m > 12 \/ d < 1 THEN <<FALSE, NoDate>>
                          ELSE IF d > DaysInMonth(y, m) THEN <<FALSE, NoDate>>
                          ELSE <<TRUE, <<y, m, d>>>>

\* start_hour, start_minute = map(int, time_slot.split(':')); time(h, m, 0):
\* <<TRUE, h, m>> or <<FALSE, _, _>> (ValueError)
ParseTimeSlot(s) ==
    LET parts == Split(s, CH_COLON)
    IN  IF Len(parts) # 2 THEN <<FALSE, 0, 0>>
        ELSE IF ~(AllDigits(parts[1]) /\ AllDigits(parts[2])) THEN <<FALSE, 0, 0>>
        ELSE LET h == IntOf(parts[1])
                 m == IntOf(parts[2])
             IN  IF h > 23 \/ m > 59 THEN <<FALSE, 0, 0>> ELSE <<TRUE, h, m>>

----------------------------------------------------------------------------
(* Slot grid *)

FIRST_HOUR == 9
END_HOUR == 17

SlotLabel(h, m) == Fmt02d(h) \o <<CH_COLON>> \o Fmt02d(m)

\* for hour in range(h, stop): for minute in [0, 30]: append(f"{hour:02d}:{minute:02d}")
RECURSIVE SlotsInRange(_, _)
SlotsInRange(h, stop) ==
    IF h >= stop THEN <<>>
    ELSE <<SlotLabel(h, 0), SlotLabel(h, SLOT_MINUTES)>> \o SlotsInRange(h + 1, stop)

\* Faulty variant: the hour range runs one hour too far
all_possible_slots_through_17 == SlotsInRange(FIRST_HOUR, END_HOUR + 1)

\* tools.py:88-91
all_possible_slots == SlotsInRange(FIRST_HOUR, END_HOUR)

----------------------------------------------------------------------------
(* Input texts the callers send *)

D_2025_07_02 == <<50, 48, 50, 53, 45, 48, 55, 45, 48, 50>>   \* "2025-07-02"
D_2025_07_03 == <<50, 48, 50, 53, 45, 48, 55, 45, 48, 51>>   \* "2025-07-03"
D_02_07_2025 == <<48, 50, 47, 48, 55, 47, 50, 48, 50, 53>>   \* "02/07/2025"

T_09_30 == <<48, 57, 58, 51, 48>>   \* "09:30"
T_15_00 == <<49, 53, 58, 48, 48>>   \* "15:00"
T_0930 == <<48, 57, 51, 48>>        \* "0930"

DoctorNameInputs == {"dr. ahuja", "Dr. Bose", "Dr. Who"}
DateInputs == {D_2025_07_02, D_2025_07_03, D_02_07_2025}

\* the booking requests the agent sends: patient name, patient email, date, time slot
BookRequests ==
    {<<"Asha", "asha@mail.example", D_2025_07_02, T_09_30>>,
     <<"Asha", "asha@mail.example", D_2025_07_02, T_15_00>>,
     <<"Asha", "asha@mail.example", D_2025_07_03, T_09_30>>,
     <<"Asha", "asha@mail.example", D_02_07_2025, T_09_30>>,
     <<"Asha", "asha@mail.example", D_2025_07_02, T_0930>>,
     <<"Ravi", "asha@mail.example", D_2025_07_02, T_09_30>>}

\* what the direct endpoint's JSON body may carry
DirectDoctorIds == {1, 9}
DirectPatientIds == {1, 9}
DirectDateTimes == {[date |-> <<2025, 7, 2>>, minutes |-> 0],
                    [date |-> <<2025, 7, 2>>, minutes |-> 570]}
DirectSlots == {T_09_30}

----------------------------------------------------------------------------
(* The store *)

\* table "doctors" (rows are created by registration and not changed here)
Doctors == {[id |-> 1, name |-> "Dr. Ahuja", email |-> "ahuja@clinic.example"],
            [id |-> 2, name |-> "Dr. Bose", email |-> ""]}

\* case folding of the names that occur, for ILIKE
Lower(n) ==
    CASE n = "Dr. Ahuja" -> "dr. ahuja"
      [] n = "Dr. Bose" -> "dr. bose"
      [] n = "Dr. Who" -> "dr. who"
      [] OTHER -> n

\* .first() of a query without ORDER BY: the row of least id
FirstOf(rows) == IF rows = {} THEN {} ELSE {CHOOSE r \in rows : \A q \in rows : r.id <= q.id}

\* db.query(Doctor).filter(Doctor.name.ilike(doctor_name)).first()
_get_doctor_by_name(doctor_name) ==
    FirstOf({d \in Doctors : Lower(d.name) = Lower(doctor_name)})

\* db.query(Patient).filter(Patient.email == patient_email).first()
PatientByEmail(email) == FirstOf({q \in patients : q.email = email})

NextPatientId == Cardinality(patients) + 1
NextAppointmentId == Cardinality(appointments) + 1
NextEventId == Cardinality(events) + 1

ActiveStatuses == {"pending", "confirmed"}

----------------------------------------------------------------------------
(* The external calendar *)

\* 'timeZone': 'Asia/Kolkata' is UTC+05:30
TZ_OFFSET_MINUTES == 330

\* instant (UTC minutes) of a naive datetime sent with timeZone Asia/Kolkata
KolkataInstant(dt) == NaiveMinutes(dt) - TZ_OFFSET_MINUTES

\* instant (UTC minutes) of a naive datetime sent as isoformat() + 'Z'
ZuluInstant(dt) == NaiveMinutes(dt)

AddMinutes(dt, n) == [date |-> dt.date, minutes |-> dt.minutes + n]

\* busy intervals out of band, as the doctor sees them (Asia/Kolkata wall clock)
ExternalBusyChoices ==
    {[start |-> KolkataInstant(Combine(<<2025, 7, 2>>, 15, 0)),
      end |-> KolkataInstant(Combine(<<2025, 7, 2>>, 15, 30))]}

\* what the calendar holds as busy
CalendarBusy == external_busy \cup {[start |-> e.start, end |-> e.end] : e \in events}

\* freebusy().query(timeMin, timeMax): the busy intervals meeting [timeMin, timeMax)
FreeBusyQuery(timeMin, timeMax) ==
    {b \in CalendarBusy : b.start < timeMax /\ b.end > timeMin}

\* Faulty variant: the busy list is read from the wrong key of the response: always empty
get_free_busy_slots_no_busy(service, outcome, start_time, end_time) ==
    IF ~service THEN [raised |-> FALSE, busy |-> {}, log |-> {}]
    ELSE IF outcome = "HttpError" THEN
        [raised |-> FALSE, busy |-> {}, log |-> {"free/busy HttpError"}]
    ELSE [raised |-> FALSE, log |-> {}, busy |-> {}]

\* get_free_busy_slots(service, calendar_id, start_time, end_time):
\* [raised |-> whether HttpError leaves the function, busy |-> the list returned,
\*  log |-> what logger.error recorded]
get_free_busy_slots(service, outcome, start_time, end_time) ==
    IF ~service THEN [raised |-> FALSE, busy |-> {}, log |-> {}]
    ELSE IF outcome = "HttpError" THEN
        [raised |-> FALSE, busy |-> {}, log |-> {"free/busy HttpError"}]
    ELSE [raised |-> FALSE, log |-> {},
          busy |-> FreeBusyQuery(ZuluInstant(start_time), ZuluInstant(end_time))]

FreeBusyOutcomes == {"ok", "HttpError"}

\* create_calendar_event(...): the id returned (0 stands for None: HttpError, or a
\* response that carries no 'id') and the event left on the calendar, if any
create_calendar_event(service, outcome, start_datetime, end_datetime) ==
    IF ~service THEN [id |-> 0, created |-> {}, log |-> {}]
    ELSE IF outcome = "HttpError" THEN
        [id |-> 0, created |-> {}, log |-> {"create event HttpError"}]
    ELSE IF outcome = "no_id" THEN [id |-> 0, created |-> {}, log |-> {}]
    ELSE [id |-> NextEventId, log |-> {},
          created |-> {[id |-> NextEventId, start |-> KolkataInstant(start_datetime),
                        end |-> KolkataInstant(end_datetime)]}]

CreateEventOutcomes == {"created", "no_id", "HttpError"}

----------------------------------------------------------------------------
(* Worker state *)

NoText == <<>>
NoDateTime == [date |-> NoDate, minutes |-> 0]

NoArgs == [op |-> "none", patient_name |-> "", patient_email |-> "", date |-> NoText,
           time_slot |-> NoText, doctor_id |-> 0, patient_id |-> 0,
           appointment_date |-> NoDateTime, report_type |-> "", role |-> "",
           schema |-> ""]

\* log: what the loggers recorded at error level during the call;
\* patient_created: the call took the `if not patient` branch and committed a new row
NoLoc == [doctor_id |-> 0, patient_id |-> 0, patient_created |-> FALSE,
          date_obj |-> NoDate, start |-> NoDateTime, gcal_event_id |-> 0,
          appointment_id |-> 0, user_id |-> 0, log |-> {}]

\* email_said_sent: the payload's message says a confirmation email has been sent
\* (tools.py:232); the payload carries no other word on the notification
NoResult == [op |-> "none", kind |-> "none", tag |-> "", appointment_id |-> 0,
             google_calendar_event_id |-> 0, email_to |-> "", email_said_sent |-> FALSE,
             doctor_name |-> "", date |-> NoText, available_slots |-> <<>>,
             report_type |-> "", count |-> 0, details |-> <<>>]

\* {"error": "..."}; the tag abbreviates the message
ErrorPayload(op, tag) == [NoResult EXCEPT !.op = op, !.kind = "error", !.tag = tag]

\* an exception that leaves the handler
Fault(op, tag) == [NoResult EXCEPT !.op = op, !.kind = "fault", !.tag = tag]

\* raise HTTPException(status_code=..., detail=...)
HttpException(op, tag) == [NoResult EXCEPT !.op = op, !.kind = "http_error", !.tag = tag]

\* the call returns r: the worker is idle again, its arguments and locals are gone,
\* and it holds the result of its last call
Finish(p, r) ==
    /\ pc' = [pc EXCEPT ![p] = "idle"]
    /\ args' = [args EXCEPT ![p] = NoArgs]
    /\ loc' = [loc EXCEPT ![p] = NoLoc]
    /\ result' = [result EXCEPT ![p] = r]

\* the call goes on at label with locals l
Goto(p, label, l) ==
    /\ pc' = [pc EXCEPT ![p] = label]
    /\ loc' = [loc EXCEPT ![p] = l]
    /\ UNCHANGED <<args, result>>

\* a call with arguments a starts and goes on at label with locals l
Begin(p, a, label, l) ==
    /\ pc' = [pc EXCEPT ![p] = label]
    /\ args' = [args EXCEPT ![p] = a]
    /\ loc' = [loc EXCEPT ![p] = l]
    /\ result' = [result EXCEPT ![p] = NoResult]

Init ==
    /\ gcal_service \in BOOLEAN
    /\ patients = {}
    /\ appointments = {}
    /\ users = {}
    /\ patient_user_id = {}
    /\ events = {}
    /\ external_busy \in SUBSET ExternalBusyChoices
    \* without a handle the calendar is never contacted: its content is left out
    /\ ~gcal_service => external_busy = {}
    /\ outbox = {}
    /\ pc = [p \in Workers |-> "idle"]
    /\ args = [p \in Workers |-> NoArgs]
    /\ loc = [p \in Workers |-> NoLoc]
    /\ result = [p \in Workers |-> NoResult]
    /\ calls = 0

----------------------------------------------------------------------------
(* book_appointment_tool, tools.py:125-246 *)

BOOK == "book_appointment_tool"

\* tools.py:137-147: resolve the doctor
BookStart(p, doctor_name, req) ==
    /\ pc[p] = "idle"
    /\ calls < MaxCalls
    /\ calls' = calls + 1
    /\ LET doctor == _get_doctor_by_name(doctor_name)
       IN  IF doctor = {} THEN
               Finish(p, ErrorPayload(BOOK, "Doctor not found"))
           ELSE LET d == CHOOSE x \in doctor : TRUE
                IN  IF d.email = "" THEN
                        Finish(p, ErrorPayload(BOOK, "Doctor has no calendar ID"))
                    ELSE
                        Begin(p, [NoArgs EXCEPT !.op = BOOK, !.patient_name = req[1],
                                                !.patient_email = req[2],
                                                !.date = req[3], !.time_slot = req[4]],
                              "bk_patient", [NoLoc EXCEPT !.doctor_id = d.id])
    /\ UNCHANGED <<gcal_service, accounts, patients, appointments, events, external_busy, outbox>>

\* tools.py:45-46: _get_patient_by_name_or_create, the lookup by email
BookGetPatient(p) ==
    /\ pc[p] = "bk_patient"
    /\ LET patient == PatientByEmail(args[p].patient_email)
       IN  IF patient = {} THEN
               Goto(p, "bk_create_patient", loc[p])
           ELSE
               Goto(p, "bk_local",
                    [loc[p] EXCEPT !.patient_id = (CHOOSE x \in patient : TRUE).id])
    /\ UNCHANGED <<gcal_service, accounts, patients, appointments, events, external_busy, outbox,
                   calls>>

\* Faulty variant: the store does not enforce the uniqueness of Patient.email
BookCreatePatient_no_unique(p) ==
    /\ pc[p] = "bk_create_patient"
    /\ patients' = patients \cup {[id |-> NextPatientId,
                                    name |-> args[p].patient_name,
                                    email |-> args[p].patient_email]}
    /\ Goto(p, "bk_local", [loc[p] EXCEPT !.patient_id = NextPatientId,
                                          !.patient_created = TRUE])
    /\ UNCHANGED <<gcal_service, accounts, appointments, events, external_busy, outbox, calls>>

\* tools.py:47-50: insert the new Patient and commit; Patient.email is unique
\* (models.py:25), a violation raises IntegrityError, caught at tools.py:241-244
BookCreatePatient(p) ==
    /\ pc[p] = "bk_create_patient"
    /\ IF \E q \in patients : q.email = args[p].patient_email THEN
           /\ Finish(p, ErrorPayload(BOOK, "An unexpected error occurred during booking"))
           /\ UNCHANGED patients
       ELSE
           /\ patients' = patients \cup {[id |-> NextPatientId,
                                           name |-> args[p].patient_name,
                                           email |-> args[p].patient_email]}
           /\ Goto(p, "bk_local", [loc[p] EXCEPT !.patient_id = NextPatientId,
                                                 !.patient_created = TRUE])
    /\ UNCHANGED <<gcal_service, accounts, appointments, events, external_busy, outbox, calls>>

\* db.query(Appointment).filter(doctor_id ==, appointment_date ==, time_slot ==).first()
ExistingAppointment(doctor_id, when, time_slot) ==
    FirstOf({a \in appointments : /\ a.doctor_id = doctor_id
                                  /\ a.appointment_date = when
                                  /\ a.time_slot = time_slot})

\* Faulty variant: the lookup of an existing appointment is left out
BookCheckLocal_no_lookup(p) ==
    /\ pc[p] = "bk_local"
    /\ LET pd == StrptimeDate(args[p].date)
           pt == ParseTimeSlot(args[p].time_slot)
       IN  IF ~pd[1] \/ ~pt[1] THEN
               Finish(p, ErrorPayload(BOOK, "Invalid date or time slot format"))
           ELSE
               Goto(p, IF gcal_service THEN "bk_recheck" ELSE "bk_insert",
                    [loc[p] EXCEPT !.date_obj = pd[2],
                                   !.start = Combine(pd[2], pt[2], pt[3]),
                                   !.log = @ \cup (IF gcal_service THEN {}
                                                   ELSE {"calendar not available"})])
    /\ UNCHANGED <<gcal_service, accounts, patients, appointments, events, external_busy, outbox,
                   calls>>

\* Faulty variant: the calendar is asked whether or not the handle exists
BookCheckLocal_always_recheck(p) ==
    /\ pc[p] = "bk_local"
    /\ LET pd == StrptimeDate(args[p].date)
           pt == ParseTimeSlot(args[p].time_slot)
       IN  IF ~pd[1] \/ ~pt[1] THEN
               Finish(p, ErrorPayload(BOOK, "Invalid date or time slot format"))
           ELSE IF ExistingAppointment(loc[p].doctor_id, DateAsDateTime(pd[2]),
                                       args[p].time_slot) # {} THEN
               Finish(p, ErrorPayload(BOOK, "Time slot already booked"))
           ELSE
               Goto(p, "bk_recheck",
                    [loc[p] EXCEPT !.date_obj = pd[2],
                                   !.start = Combine(pd[2], pt[2], pt[3])])
    /\ UNCHANGED <<gcal_service, accounts, patients, appointments, events, external_busy, outbox,
                   calls>>

\* tools.py:151-166: parse the date and the slot, then look for the slot in the store
BookCheckLocal(p) ==
    /\ pc[p] = "bk_local"
    /\ LET pd == StrptimeDate(args[p].date)
           pt == ParseTimeSlot(args[p].time_slot)
       IN  IF ~pd[1] \/ ~pt[1] THEN
               Finish(p, ErrorPayload(BOOK, "Invalid date or time slot format"))
           ELSE IF ExistingAppointment(loc[p].doctor_id, DateAsDateTime(pd[2]),
                                       args[p].time_slot) # {} THEN
               Finish(p, ErrorPayload(BOOK, "Time slot already booked"))
           ELSE
               Goto(p, IF gcal_service THEN "bk_recheck" ELSE "bk_insert",
                    [loc[p] EXCEPT !.date_obj = pd[2],
                                   !.start = Combine(pd[2], pt[2], pt[3]),
                                   !.log = @ \cup (IF gcal_service THEN {}
                                                   ELSE {"calendar not available"})])
    /\ UNCHANGED <<gcal_service, accounts, patients, appointments, events, external_busy, outbox,
                   calls>>

\* tools.py:168-176: ask the calendar once more whether the slot is busy
BookRecheck(p, outcome) ==
    /\ pc[p] = "bk_recheck"
    /\ LET r == get_free_busy_slots(gcal_service, outcome, loc[p].start,
                                    AddMinutes(loc[p].start, SLOT_MINUTES))
       IN  IF r.raised THEN
               Finish(p, ErrorPayload(BOOK, "Could not confirm Google Calendar availability"))
           ELSE IF r.busy # {} THEN
               Finish(p, ErrorPayload(BOOK, "Doctor is unexpectedly busy"))
           ELSE
               Goto(p, "bk_event", [loc[p] EXCEPT !.log = @ \cup r.log])
    /\ UNCHANGED <<gcal_service, accounts, patients, appointments, events, external_busy, outbox,
                   calls>>

\* Faulty variant: the returned id is not looked at: the booking goes on without an event
BookCreateEvent_unchecked(p, outcome) ==
    /\ pc[p] = "bk_event"
    /\ LET r == create_calendar_event(gcal_service, outcome, loc[p].start,
                                      AddMinutes(loc[p].start, SLOT_MINUTES))
       IN  /\ events' = events \cup r.created
           /\ Goto(p, "bk_insert", [loc[p] EXCEPT !.gcal_event_id = r.id])
    /\ UNCHANGED <<gcal_service, accounts, patients, appointments, external_busy, outbox, calls>>

\* tools.py:178-198: create the calendar event; no id, no booking
BookCreateEvent(p, outcome) ==
    /\ pc[p] = "bk_event"
    /\ LET r == create_calendar_event(gcal_service, outcome, loc[p].start,
                                      AddMinutes(loc[p].start, SLOT_MINUTES))
       IN  /\ events' = events \cup r.created
           /\ IF r.id = 0 THEN
                  Finish(p, ErrorPayload(BOOK, "Failed to create Google Calendar event"))
              ELSE
                  Goto(p, "bk_insert", [loc[p] EXCEPT !.gcal_event_id = r.id])
    /\ UNCHANGED <<gcal_service, accounts, patients, appointments, external_busy, outbox, calls>>

CommitOutcomes == {"ok", "OperationalError"}

\* Faulty variant: the row is written without the event reference
BookInsert_no_reference(p, outcome) ==
    /\ pc[p] = "bk_insert"
    /\ IF outcome = "ok" THEN
           /\ appointments' = appointments \cup
                  {[id |-> NextAppointmentId, doctor_id |-> loc[p].doctor_id,
                    patient_id |-> loc[p].patient_id,
                    appointment_date |-> DateAsDateTime(loc[p].date_obj),
                    time_slot |-> args[p].time_slot, status |-> "confirmed",
                    google_calendar_event_id |-> 0,
                    via |-> BOOK]}
           /\ Goto(p, "bk_email", [loc[p] EXCEPT !.appointment_id = NextAppointmentId])
       ELSE
           /\ Finish(p, ErrorPayload(BOOK, "An unexpected error occurred during booking"))
           /\ UNCHANGED appointments
    /\ UNCHANGED <<gcal_service, accounts, patients, events, external_busy, outbox, calls>>

\* tools.py:202-214: insert the Appointment and commit; a failure of the store is
\* caught at tools.py:241-244 (rollback, error payload)
BookInsert(p, outcome) ==
    /\ pc[p] = "bk_insert"
    /\ IF outcome = "ok" THEN
           /\ appointments' = appointments \cup
                  {[id |-> NextAppointmentId, doctor_id |-> loc[p].doctor_id,
                    patient_id |-> loc[p].patient_id,
                    appointment_date |-> DateAsDateTime(loc[p].date_obj),
                    time_slot |-> args[p].time_slot, status |-> "confirmed",
                    google_calendar_event_id |-> loc[p].gcal_event_id,
                    via |-> BOOK]}
           /\ Goto(p, "bk_email", [loc[p] EXCEPT !.appointment_id = NextAppointmentId])
       ELSE
           /\ Finish(p, ErrorPayload(BOOK, "An unexpected error occurred during booking"))
           /\ UNCHANGED appointments
    /\ UNCHANGED <<gcal_service, accounts, patients, events, external_busy, outbox, calls>>

\* tools.py:216-236: send the confirmation email (its outcome is not read) and return
BookSendEmail(p, sent) ==
    /\ pc[p] = "bk_email"
    /\ outbox' = IF sent THEN outbox \cup {loc[p].appointment_id} ELSE outbox
    /\ Finish(p, [NoResult EXCEPT !.op = BOOK, !.kind = "success",
                                  !.appointment_id = loc[p].appointment_id,
                                  !.google_calendar_event_id = loc[p].gcal_event_id,
                                  !.email_to = args[p].patient_email,
                                  !.email_said_sent = TRUE])
    /\ UNCHANGED <<gcal_service, accounts, patients, appointments, events, external_busy, calls>>

----------------------------------------------------------------------------
(* check_doctor_availability_tool, tools.py:61-123 *)

CHECK == "check_doctor_availability_tool"

\* tools.py:69-91: resolve the doctor, parse the date
CheckStartWithin(p, doctor_name, date, limit) ==
    /\ pc[p] = "idle"
    /\ calls < limit
    /\ calls' = calls + 1
    /\ LET doctor == _get_doctor_by_name(doctor_name)
           pd == StrptimeDate(date)
       IN  IF doctor = {} THEN
               Finish(p, ErrorPayload(CHECK, "Doctor not found"))
           ELSE LET d == CHOOSE x \in doctor : TRUE
                IN  IF d.email = "" THEN
                        Finish(p, ErrorPayload(CHECK, "Doctor has no calendar ID"))
                    ELSE IF ~pd[1] THEN
                        Finish(p, ErrorPayload(CHECK, "Invalid date format"))
                    ELSE
                        Begin(p, [NoArgs EXCEPT !.op = CHECK, !.date = date],
                              IF gcal_service THEN "ck_remote" ELSE "ck_local",
                              [NoLoc EXCEPT !.doctor_id = d.id, !.date_obj = pd[2]])
    /\ UNCHANGED <<gcal_service, accounts, patients, appointments, events, external_busy, outbox>>

CheckStart(p, doctor_name, date) == CheckStartWithin(p, doctor_name, date, MaxCalls)

\* tools.py:93-109: the calendar's busy periods between 09:00 and 17:00.
\* Line 99 evaluates datetime.timezone.utc with datetime bound to the class
\* datetime.datetime (tools.py:2), which has no attribute timezone: the first busy
\* period raises AttributeError, which no handler of the function catches.
CheckRemote(p, outcome) ==
    /\ pc[p] = "ck_remote"
    /\ LET r == get_free_busy_slots(gcal_service, outcome,
                                    Combine(loc[p].date_obj, FIRST_HOUR, 0),
                                    Combine(loc[p].date_obj, END_HOUR, 0))
       IN  IF r.raised THEN
               Finish(p, ErrorPayload(CHECK, "Could not retrieve Google Calendar availability"))
           ELSE IF r.busy # {} THEN
               Finish(p, Fault(CHECK, "AttributeError"))
           ELSE
               Goto(p, "ck_local", [loc[p] EXCEPT !.log = @ \cup r.log])
    /\ UNCHANGED <<gcal_service, accounts, patients, appointments, events, external_busy, outbox,
                   calls>>

\* [slot for slot in all_possible_slots if slot not in all_occupied_slots]
RECURSIVE FilterOut(_, _)
FilterOut(slots, occupied) ==
    IF slots = <<>> THEN <<>>
    ELSE IF Head(slots) \in occupied THEN FilterOut(Tail(slots), occupied)
    ELSE <<Head(slots)>> \o FilterOut(Tail(slots), occupied)

\* tools.py:111-115: the slot labels of the doctor's appointments on the date
db_booked_time_slots(doctor_id, requested_date) ==
    {a.time_slot : a \in {x \in appointments :
                             /\ x.doctor_id = doctor_id
                             /\ x.appointment_date = DateAsDateTime(requested_date)}}

\* tools.py:117-119 (gcal_busy_slots is empty whenever line 111 is reached)
available_slots(doctor_id, requested_date) ==
    SortStr(FilterOut(all_possible_slots, db_booked_time_slots(doctor_id, requested_date)))

DoctorName(doctor_id) == (CHOOSE d \in Doctors : d.id = doctor_id).name

\* Faulty variant: the query holds the first free slot with a pending appointment
CheckLocal_holds_slot(p) ==
    /\ pc[p] = "ck_local"
    /\ LET free == available_slots(loc[p].doctor_id, loc[p].date_obj)
       IN  /\ appointments' = appointments \cup
                  (IF free = <<>> THEN {}
                   ELSE {[id |-> NextAppointmentId, doctor_id |-> loc[p].doctor_id,
                          patient_id |-> 0,
                          appointment_date |-> DateAsDateTime(loc[p].date_obj),
                          time_slot |-> Head(free), status |-> "pending",
                          google_calendar_event_id |-> 0, via |-> CHECK]})
           /\ Finish(p, [NoResult EXCEPT !.op = CHECK, !.kind = "success",
                                         !.doctor_name = DoctorName(loc[p].doctor_id),
                                         !.date = args[p].date,
                                         !.available_slots = free])
    /\ UNCHANGED <<gcal_service, accounts, patients, events, external_busy, outbox, calls>>

\* tools.py:111-121: read the store, return the free slots
CheckLocal(p) ==
    /\ pc[p] = "ck_local"
    /\ Finish(p, [NoResult EXCEPT !.op = CHECK, !.kind = "success",
                                  !.doctor_name = DoctorName(loc[p].doctor_id),
                                  !.date = args[p].date,
                                  !.available_slots =
                                      available_slots(loc[p].doctor_id, loc[p].date_obj)])
    /\ UNCHANGED <<gcal_service, accounts, patients, appointments, events, external_busy, outbox,
                   calls>>

----------------------------------------------------------------------------
(* book_appointment_direct, main.py:386-417 *)

DIRECT == "book_appointment_direct"

\* main.py:389-404: look up doctor and patient, then the slot
DirectStart(p, doctor_id, patient_id, appointment_date, time_slot) ==
    /\ pc[p] = "idle"
    /\ calls < MaxCalls
    /\ calls' = calls + 1
    /\ IF ~\E d \in Doctors : d.id = doctor_id THEN
           Finish(p, HttpException(DIRECT, "404 Doctor not found"))
       ELSE IF ~\E q \in patients : q.id = patient_id THEN
           Finish(p, HttpException(DIRECT, "404 Patient not found"))
       ELSE IF ExistingAppointment(doctor_id, appointment_date, time_slot) # {} THEN
           Finish(p, HttpException(DIRECT, "409 Time slot already booked"))
       ELSE
           Begin(p, [NoArgs EXCEPT !.op = DIRECT, !.doctor_id = doctor_id,
                                   !.patient_id = patient_id,
                                   !.appointment_date = appointment_date,
                                   !.time_slot = time_slot],
                 "dr_insert", NoLoc)
    /\ UNCHANGED <<gcal_service, accounts, patients, appointments, events, external_busy, outbox>>

\* Faulty variant: the direct endpoint stores the row as confirmed
DirectInsert_confirmed(p) ==
    /\ pc[p] = "dr_insert"
    /\ appointments' = appointments \cup
           {[id |-> NextAppointmentId, doctor_id |-> args[p].doctor_id,
             patient_id |-> args[p].patient_id,
             appointment_date |-> args[p].appointment_date,
             time_slot |-> args[p].time_slot, status |-> "confirmed",
             google_calendar_event_id |-> 0, via |-> DIRECT]}
    /\ Finish(p, [NoResult EXCEPT !.op = DIRECT, !.kind = "success",
                                  !.appointment_id = NextAppointmentId])
    /\ UNCHANGED <<gcal_service, accounts, patients, events, external_busy, outbox, calls>>

\* main.py:406-417: insert the Appointment as pending
DirectInsert(p) ==
    /\ pc[p] = "dr_insert"
    /\ appointments' = appointments \cup
           {[id |-> NextAppointmentId, doctor_id |-> args[p].doctor_id,
             patient_id |-> args[p].patient_id,
             appointment_date |-> args[p].appointment_date,
             time_slot |-> args[p].time_slot, status |-> "pending",
             google_calendar_event_id |-> 0, via |-> DIRECT]}
    /\ Finish(p, [NoResult EXCEPT !.op = DIRECT, !.kind = "success",
                                  !.appointment_id = NextAppointmentId])
    /\ UNCHANGED <<gcal_service, accounts, patients, events, external_busy, outbox, calls>>

----------------------------------------------------------------------------
(* The clinical workflow outside this repository that completes an appointment; *)
(* it is taken between requests (no tool step reads or writes the status of an   *)
(* existing row, so the order against the steps of a running call is immaterial) *)

CompleteAppointment(id) ==
    /\ \A w \in Workers : pc[w] = "idle"
    /\ \E a \in appointments :
          /\ a.id = id
          /\ a.status \in ActiveStatuses
          /\ appointments' = (appointments \ {a}) \cup {[a EXCEPT !.status = "completed"]}
    /\ UNCHANGED <<gcal_service, accounts, patients, events, external_busy, outbox,
                   pc, args, loc, result, calls>>

----------------------------------------------------------------------------

Next ==
    \/ \E p \in Workers, n \in DoctorNameInputs, r \in BookRequests : BookStart(p, n, r)
    \/ \E p \in Workers : BookGetPatient(p)
    \/ \E p \in Workers : BookCreatePatient(p)
    \/ \E p \in Workers : BookCheckLocal(p)
    \/ \E p \in Workers, o \in FreeBusyOutcomes : BookRecheck(p, o)
    \/ \E p \in Workers, o \in CreateEventOutcomes : BookCreateEvent(p, o)
    \/ \E p \in Workers, o \in CommitOutcomes : BookInsert(p, o)
    \/ \E p \in Workers, sent \in BOOLEAN : BookSendEmail(p, sent)
    \/ \E p \in Workers, n \in DoctorNameInputs, d \in DateInputs : CheckStart(p, n, d)
    \/ \E p \in Workers, o \in FreeBusyOutcomes : CheckRemote(p, o)
    \/ \E p \in Workers : CheckLocal(p)
    \/ \E p \in Workers, d \in DirectDoctorIds, q \in DirectPatientIds,
          w \in DirectDateTimes, t \in DirectSlots : DirectStart(p, d, q, w, t)
    \/ \E p \in Workers : DirectInsert(p)
    \/ \E id \in 1..MaxCalls : CompleteAppointment(id)

Spec == Init /\ [][Next]_vars

----------------------------------------------------------------------------
(* Availability asked for after the bookings have returned: bookings run first,   *)
(* one after the other; once an availability call has started no booking starts,  *)
(* and an availability call starts only while no booking is running.  One more    *)
(* call than MaxCalls is admitted so that a booking can be followed by two        *)
(* queries.                                                                       *)

NoCheckYet == \A p \in Workers : args[p].op # CHECK /\ result[p].op # CHECK

NoBookingRunning == \A p \in Workers : args[p].op # BOOK

BookBeforeChecks(p, doctor_name, req) ==
    NoCheckYet /\ NoBookingRunning /\ BookStart(p, doctor_name, req)

CheckAfterBookings(p, doctor_name, date) ==
    NoBookingRunning /\ CheckStartWithin(p, doctor_name, date, MaxCalls + 1)

NextBookThenCheck ==
    \/ \E p \in Workers, n \in DoctorNameInputs, r \in BookRequests :
          BookBeforeChecks(p, n, r)
    \/ \E p \in Workers : BookGetPatient(p)
    \/ \E p \in Workers : BookCreatePatient(p)
    \/ \E p \in Workers : BookCheckLocal(p)
    \/ \E p \in Workers, o \in FreeBusyOutcomes : BookRecheck(p, o)
    \/ \E p \in Workers, o \in CreateEventOutcomes : BookCreateEvent(p, o)
    \/ \E p \in Workers, o \in CommitOutcomes : BookInsert(p, o)
    \/ \E p \in Workers, sent \in BOOLEAN : BookSendEmail(p, sent)
    \/ \E p \in Workers, n \in DoctorNameInputs, d \in DateInputs :
          CheckAfterBookings(p, n, d)
    \/ \E p \in Workers, o \in FreeBusyOutcomes : CheckRemote(p, o)
    \/ \E p \in Workers : CheckLocal(p)

SpecBookThenCheck == Init /\ [][NextBookThenCheck]_vars

----------------------------------------------------------------------------
(* Bookings with the time-slot texts an agent may send, served by one worker *)

T_9_30 == <<57, 58, 51, 48>>          \* "9:30"
T_09_15 == <<48, 57, 58, 49, 53>>     \* "09:15"
T_18_00 == <<49, 56, 58, 48, 48>>     \* "18:00"
T_25_00 == <<50, 53, 58, 48, 48>>     \* "25:00"

SlotInputs == {T_09_30, T_9_30, T_09_15, T_18_00, T_25_00, T_0930}

SlotRequests == {<<"Asha", "asha@mail.example", D_2025_07_02, t>> : t \in SlotInputs}

SlotWorkers == {"w1"}

NextSlotInputs ==
    \/ \E p \in SlotWorkers, n \in DoctorNameInputs, r \in SlotRequests : BookStart(p, n, r)
    \/ \E p \in SlotWorkers : BookGetPatient(p)
    \/ \E p \in SlotWorkers : BookCreatePatient(p)
    \/ \E p \in SlotWorkers : BookCheckLocal(p)
    \/ \E p \in SlotWorkers, o \in FreeBusyOutcomes : BookRecheck(p, o)
    \/ \E p \in SlotWorkers, o \in CreateEventOutcomes : BookCreateEvent(p, o)
    \/ \E p \in SlotWorkers, o \in CommitOutcomes : BookInsert(p, o)
    \/ \E p \in SlotWorkers, sent \in BOOLEAN : BookSendEmail(p, sent)

SpecSlotInputs == Init /\ [][NextSlotInputs]_vars

----------------------------------------------------------------------------
(* The direct endpoints: create_patient and check_doctor_availability_direct,   *)
(* main.py:339-384                                                              *)

CREATE_PATIENT == "create_patient"
AVAILABILITY_DIRECT == "check_doctor_availability_direct"

\* the (name, email) pairs posted to /patients/
PatientCreateInputs == {<<r[1], r[2]>> : r \in BookRequests}

\* main.py:340-346: insert the Patient and commit, with no lookup first;
\* Patient.email is unique (models.py:25), a violation raises IntegrityError, which
\* the endpoint does not catch
create_patient(p, name, email) ==
    /\ pc[p] = "idle"
    /\ IF \E q \in patients : q.email = email THEN
           /\ Finish(p, Fault(CREATE_PATIENT, "IntegrityError"))
           /\ UNCHANGED patients
       ELSE
           /\ patients' = patients \cup {[id |-> NextPatientId, name |-> name,
                                           email |-> email]}
           /\ Finish(p, [NoResult EXCEPT !.op = CREATE_PATIENT, !.kind = "success"])
    /\ UNCHANGED <<gcal_service, accounts, appointments, events, external_busy, outbox, calls>>

\* main.py:362-369: resolve the doctor and parse the date
AvailabilityDirectStart(p, doctor_id, date) ==
    /\ pc[p] = "idle"
    /\ LET pd == StrptimeDate(date)
       IN  IF ~\E d \in Doctors : d.id = doctor_id THEN
               Finish(p, HttpException(AVAILABILITY_DIRECT, "404 Doctor not found"))
           ELSE IF ~pd[1] THEN
               Finish(p, HttpException(AVAILABILITY_DIRECT, "400 Invalid date format"))
           ELSE
               Begin(p, [NoArgs EXCEPT !.op = AVAILABILITY_DIRECT, !.doctor_id = doctor_id,
                                       !.date = date],
                     "av_query", [NoLoc EXCEPT !.doctor_id = doctor_id, !.date_obj = pd[2]])
    /\ UNCHANGED <<gcal_service, accounts, patients, appointments, events, external_busy, outbox,
                   calls>>

\* main.py:371-384: Appointment.appointment_date == requested_date, then the grid
\* without the booked labels, in grid order
AvailabilityDirectQuery(p) ==
    /\ pc[p] = "av_query"
    /\ Finish(p, [NoResult EXCEPT
                    !.op = AVAILABILITY_DIRECT, !.kind = "success",
                    !.doctor_name = DoctorName(loc[p].doctor_id),
                    !.date = args[p].date,
                    !.available_slots =
                        FilterOut(all_possible_slots,
                                  db_booked_time_slots(loc[p].doctor_id, loc[p].date_obj))])
    /\ UNCHANGED <<gcal_service, accounts, patients, appointments, events, external_busy, outbox,
                   calls>>

\* one client of the direct endpoints: patients are created, appointments booked
\* directly, and availability is asked for through the endpoint and the tool
NextDirect ==
    \/ \E p \in SlotWorkers, r \in PatientCreateInputs : create_patient(p, r[1], r[2])
    \/ \E p \in SlotWorkers, d \in DirectDoctorIds, q \in DirectPatientIds,
          w \in DirectDateTimes, t \in DirectSlots : DirectStart(p, d, q, w, t)
    \/ \E p \in SlotWorkers : DirectInsert(p)
    \/ \E p \in SlotWorkers, d \in DirectDoctorIds, w \in DateInputs :
          AvailabilityDirectStart(p, d, w)
    \/ \E p \in SlotWorkers : AvailabilityDirectQuery(p)
    \/ \E p \in SlotWorkers, n \in DoctorNameInputs, d \in DateInputs :
          CheckStartWithin(p, n, d, MaxCalls + 1)
    \/ \E p \in SlotWorkers, o \in FreeBusyOutcomes : CheckRemote(p, o)
    \/ \E p \in SlotWorkers : CheckLocal(p)

SpecDirect == Init /\ [][NextDirect]_vars

----------------------------------------------------------------------------
(* register_user, main.py:102-140 *)

REGISTER == "register_user"

RegisterEmails == {"asha@mail.example", "bose@clinic.example"}

\* UserCreate.role is any string (schemas.py:11)
RoleInputs == {"patient", "doctor", "admin"}

\* the class the body was parsed into, Union[UserCreate, DoctorRegister] (main.py:104)
SchemaInputs == {"UserCreate", "DoctorRegister"}

\* user_data.email.split('@')[0]
LocalPart(email) ==
    CASE email = "asha@mail.example" -> "asha"
      [] email = "bose@clinic.example" -> "bose"
      [] OTHER -> email

NextUserId == Cardinality(users) + 1

\* main.py:109-111: an email that already has a User is refused
RegisterStart(p, email, role, schema) ==
    /\ pc[p] = "idle"
    /\ IF \E u \in users : u.email = email THEN
           Finish(p, HttpException(REGISTER, "400 Email already registered"))
       ELSE
           Begin(p, [NoArgs EXCEPT !.op = REGISTER, !.patient_email = email,
                                   !.role = role, !.schema = schema],
                 "rg_user", NoLoc)
    /\ UNCHANGED <<gcal_service, accounts, patients, appointments, events, external_busy,
                   outbox, calls>>

\* main.py:114-118, 131-138: insert the User and commit (User.email is unique,
\* models.py:11: a violation raises IntegrityError, not caught); then, for role
\* doctor, a body that is not a DoctorRegister is refused with 400, and for a
\* DoctorRegister models.Doctor(user_id=...) raises TypeError, Doctor having no
\* column user_id (models.py:31-39)
RegisterInsertUser(p) ==
    /\ pc[p] = "rg_user"
    /\ IF \E u \in users : u.email = args[p].patient_email THEN
           /\ Finish(p, Fault(REGISTER, "IntegrityError"))
           /\ UNCHANGED users
       ELSE
           /\ users' = users \cup {[id |-> NextUserId, email |-> args[p].patient_email,
                                     role |-> args[p].role]}
           /\ IF args[p].role = "patient" THEN
                  Goto(p, "rg_patient", [loc[p] EXCEPT !.user_id = NextUserId])
              ELSE IF args[p].role = "doctor" THEN
                  IF args[p].schema # "DoctorRegister" THEN
                      Finish(p, HttpException(REGISTER,
                                              "400 Doctor registration requires name and specialty"))
                  ELSE
                      Finish(p, Fault(REGISTER, "TypeError"))
              ELSE
                  Finish(p, [NoResult EXCEPT !.op = REGISTER, !.kind = "success"])
    /\ UNCHANGED <<gcal_service, patient_user_id, patients, appointments, events,
                   external_busy, outbox, calls>>

\* main.py:120: look the Patient up by email
RegisterGetPatient(p) ==
    /\ pc[p] = "rg_patient"
    /\ LET q == PatientByEmail(args[p].patient_email)
       IN  Goto(p, "rg_profile",
                [loc[p] EXCEPT !.patient_id = IF q = {} THEN 0
                                              ELSE (CHOOSE x \in q : TRUE).id])
    /\ UNCHANGED <<gcal_service, accounts, patients, appointments, events, external_busy,
                   outbox, calls>>

\* main.py:121-129: create the Patient linked to the User, or link the one found
RegisterProfile(p) ==
    /\ pc[p] = "rg_profile"
    /\ IF loc[p].patient_id = 0 THEN
           IF \E q \in patients : q.email = args[p].patient_email THEN
               /\ Finish(p, Fault(REGISTER, "IntegrityError"))
               /\ UNCHANGED <<patients, patient_user_id>>
           ELSE
               /\ patients' = patients \cup
                      {[id |-> NextPatientId, name |-> LocalPart(args[p].patient_email),
                        email |-> args[p].patient_email]}
               /\ patient_user_id' = patient_user_id \cup
                      {<<NextPatientId, loc[p].user_id>>}
               /\ Finish(p, [NoResult EXCEPT !.op = REGISTER, !.kind = "success"])
       ELSE
           /\ patient_user_id' =
                  {l \in patient_user_id : l[1] # loc[p].patient_id}
                      \cup {<<loc[p].patient_id, loc[p].user_id>>}
           /\ Finish(p, [NoResult EXCEPT !.op = REGISTER, !.kind = "success"])
           /\ UNCHANGED patients
    /\ UNCHANGED <<gcal_service, users, appointments, events, external_busy, outbox,
                   calls>>

\* registrations, next to patients created through /patients/
NextRegister ==
    \/ \E p \in Workers, e \in RegisterEmails, r \in RoleInputs, c \in SchemaInputs :
          RegisterStart(p, e, r, c)
    \/ \E p \in Workers : RegisterInsertUser(p)
    \/ \E p \in Workers : RegisterGetPatient(p)
    \/ \E p \in Workers : RegisterProfile(p)
    \/ \E p \in Workers, r \in PatientCreateInputs : create_patient(p, r[1], r[2])

SpecRegister == Init /\ [][NextRegister]_vars

----------------------------------------------------------------------------
(* get_doctor_summary_report_tool, tools.py:266-338 *)

REPORT == "get_doctor_summary_report_tool"

ReportTypeInputs == {"daily", "total_patients", "weekly"}

\* date is optional: NoText stands for None
ReportDateInputs == DateInputs \cup {NoText}

\* datetime.now().strftime("%Y-%m-%d"): the day the report is asked for
TodayChoices == {D_2025_07_02, D_2025_07_03}

\* the calls tried: the date, and the day of the call when the date is None, are
\* read by the daily branch only (tools.py:296-298)
ReportRequests ==
    {r \in ReportTypeInputs \X ReportDateInputs \X TodayChoices :
        /\ r[2] # NoText => r[3] = D_2025_07_02
        /\ r[1] # "daily" => (r[2] = NoText /\ r[3] = D_2025_07_02)}

\* tools.py:286-301, 324-336: resolve the doctor, branch on the report type; an
\* unknown type gets a message and no query
ReportStart(p, doctor_name, report_type, date, today) ==
    /\ pc[p] = "idle"
    /\ LET doctor == _get_doctor_by_name(doctor_name)
           report_date_str == IF date # NoText THEN date ELSE today
           pd == StrptimeDate(report_date_str)
       IN  IF doctor = {} THEN
               Finish(p, ErrorPayload(REPORT, "Doctor not found"))
           ELSE LET d == CHOOSE x \in doctor : TRUE
                    a == [NoArgs EXCEPT !.op = REPORT, !.report_type = report_type,
                                        !.date = report_date_str]
                IN  IF report_type = "daily" THEN
                        IF ~pd[1] THEN
                            Finish(p, ErrorPayload(REPORT, "Invalid date format for daily report"))
                        ELSE
                            Begin(p, a, "rp_daily",
                                  [NoLoc EXCEPT !.doctor_id = d.id, !.date_obj = pd[2]])
                    ELSE IF report_type = "total_patients" THEN
                        Begin(p, [a EXCEPT !.date = NoText], "rp_total",
                              [NoLoc EXCEPT !.doctor_id = d.id])
                    ELSE
                        Finish(p, [NoResult EXCEPT !.op = REPORT, !.kind = "success",
                                                   !.doctor_name = d.name,
                                                   !.report_type = report_type,
                                                   !.tag = "Report type not recognized"])
    /\ UNCHANGED <<gcal_service, accounts, patients, appointments, events, external_busy, outbox,
                   calls>>

\* app.patient.name
PatientName(patient_id) == (CHOOSE q \in patients : q.id = patient_id).name

\* the rows in the order the query returns them (by id), each as
\* {"patient_name", "time_slot", "status"}, rows without a patient left out
RECURSIVE appointments_details(_)
appointments_details(rows) ==
    IF rows = {} THEN <<>>
    ELSE LET r == CHOOSE x \in rows : \A y \in rows : x.id <= y.id
         IN  (IF \E q \in patients : q.id = r.patient_id
              THEN <<[patient_name |-> PatientName(r.patient_id),
                      time_slot |-> r.time_slot, status |-> r.status]>>
              ELSE <<>>) \o appointments_details(rows \ {r})

\* tools.py:303-306: Appointment.appointment_date == report_date
appointments_on_date(doctor_id, report_date) ==
    {a \in appointments : /\ a.doctor_id = doctor_id
                          /\ a.appointment_date = DateAsDateTime(report_date)}

\* tools.py:303-314, 336: the daily report
ReportDaily(p) ==
    /\ pc[p] = "rp_daily"
    /\ LET rows == appointments_on_date(loc[p].doctor_id, loc[p].date_obj)
       IN  Finish(p, [NoResult EXCEPT !.op = REPORT, !.kind = "success",
                                      !.doctor_name = DoctorName(loc[p].doctor_id),
                                      !.report_type = args[p].report_type,
                                      !.date = args[p].date,
                                      !.count = Cardinality(rows),
                                      !.details = appointments_details(rows)])
    /\ UNCHANGED <<gcal_service, accounts, patients, appointments, events, external_busy, outbox,
                   calls>>

\* tools.py:317-320: the filter names models.models.Appointment; models is the
\* module models.py (tools.py:14), which has no attribute models, so building the
\* query raises AttributeError, and the function has no except clause
ReportTotal(p) ==
    /\ pc[p] = "rp_total"
    /\ Finish(p, Fault(REPORT, "AttributeError"))
    /\ UNCHANGED <<gcal_service, accounts, patients, appointments, events, external_busy, outbox,
                   calls>>

\* one worker books through the tool and the direct endpoint, appointments get
\* completed, and reports are asked for at any time
NextReports ==
    \/ \E p \in SlotWorkers, n \in DoctorNameInputs, r \in BookRequests : BookStart(p, n, r)
    \/ \E p \in SlotWorkers : BookGetPatient(p)
    \/ \E p \in SlotWorkers : BookCreatePatient(p)
    \/ \E p \in SlotWorkers : BookCheckLocal(p)
    \/ \E p \in SlotWorkers, o \in FreeBusyOutcomes : BookRecheck(p, o)
    \/ \E p \in SlotWorkers, o \in CreateEventOutcomes : BookCreateEvent(p, o)
    \/ \E p \in SlotWorkers, o \in CommitOutcomes : BookInsert(p, o)
    \/ \E p \in SlotWorkers, sent \in BOOLEAN : BookSendEmail(p, sent)
    \/ \E p \in SlotWorkers, d \in DirectDoctorIds, q \in DirectPatientIds,
          w \in DirectDateTimes, t \in DirectSlots : DirectStart(p, d, q, w, t)
    \/ \E p \in SlotWorkers : DirectInsert(p)
    \/ \E id \in 1..MaxCalls : CompleteAppointment(id)
    \/ \E p \in SlotWorkers, n \in DoctorNameInputs, r \in ReportRequests :
          ReportStart(p, n, r[1], r[2], r[3])
    \/ \E p \in SlotWorkers : ReportDaily(p)
    \/ \E p \in SlotWorkers : ReportTotal(p)

SpecReports == Init /\ [][NextReports]_vars

----------------------------------------------------------------------------
(* Availability calls against a calendar that holds busy intervals whose bounds *)
(* are not on the 30-minute grid; the store is empty and stays so                *)

\* busy intervals out of band, as the doctor sees them (Asia/Kolkata wall clock)
UnalignedBusyChoices ==
    {[start |-> KolkataInstant(Combine(<<2025, 7, 2>>, 10, 15)),
      end |-> KolkataInstant(Combine(<<2025, 7, 2>>, 10, 45))],
     [start |-> KolkataInstant(Combine(<<2025, 7, 2>>, 15, 15)),
      end |-> KolkataInstant(Combine(<<2025, 7, 2>>, 15, 45))]}

InitUnalignedBusy ==
    /\ gcal_service \in BOOLEAN
    /\ patients = {}
    /\ appointments = {}
    /\ users = {}
    /\ patient_user_id = {}
    /\ events = {}
    /\ external_busy \in SUBSET UnalignedBusyChoices
    /\ ~gcal_service => external_busy = {}
    /\ outbox = {}
    /\ pc = [p \in Workers |-> "idle"]
    /\ args = [p \in Workers |-> NoArgs]
    /\ loc = [p \in Workers |-> NoLoc]
    /\ result = [p \in Workers |-> NoResult]
    /\ calls = 0

NextChecks ==
    \/ \E p \in Workers, n \in DoctorNameInputs, d \in DateInputs : CheckStart(p, n, d)
    \/ \E p \in Workers, o \in FreeBusyOutcomes : CheckRemote(p, o)
    \/ \E p \in Workers : CheckLocal(p)

SpecUnalignedBusy == InitUnalignedBusy /\ [][NextChecks]_vars

----------------------------------------------------------------------------
(* Properties *)

IsBookSuccess(r) == r.op = BOOK /\ r.kind = "success"
IsCheckSuccess(r) == r.op = CHECK /\ r.kind = "success"

AppointmentById(id) == CHOOSE a \in appointments : a.id = id

\* the (doctor, calendar date, time-slot label) an appointment occupies
SlotKey(a) == <<a.doctor_id, a.appointment_date.date, a.time_slot>>

\* C1: in every reachable state no two appointments in an active status (pending,
\* confirmed) have the same doctor, calendar date and time-slot label.
C1_UniqueActiveSlot ==
    \A a, b \in appointments :
        (a.id # b.id /\ a.status \in ActiveStatuses /\ b.status \in ActiveStatuses)
            => SlotKey(a) # SlotKey(b)

\* C2: of two book_appointment_tool calls for the same doctor, date and slot at most
\* one returns a success payload (the other is to get the conflict error): two workers
\* never both hold a success payload whose appointments occupy the same slot.
C2_OneBookingPerSlot ==
    \A p, q \in Workers :
        (p # q /\ IsBookSuccess(result[p]) /\ IsBookSuccess(result[q]))
            => SlotKey(AppointmentById(result[p].appointment_id))
                   # SlotKey(AppointmentById(result[q].appointment_id))

\* C3: when the event-creation step of book_appointment_tool leaves no event with an
\* identifier (the calendar call failed, or its response carried no id), the call ends
\* in that step with an error payload and the appointments table is unchanged; the
\* call never reaches the insert.
C3_NoEventNoRow ==
    [][\A p \in Workers :
          (pc[p] = "bk_event" /\ pc'[p] # "bk_event" /\ events' = events)
              => /\ pc'[p] = "idle"
                 /\ result'[p] = ErrorPayload(BOOK, "Failed to create Google Calendar event")
                 /\ appointments' = appointments]_vars

C3_Witness ==
    \E p \in Workers :
        result[p] = ErrorPayload(BOOK, "Failed to create Google Calendar event")

ToolRows == {a \in appointments : a.via = BOOK}

C5_FailedQueryFailsCheck ==
    [][\A p \in Workers :
          (pc[p] = "ck_local" /\ "free/busy HttpError" \in loc[p].log /\ pc'[p] = "idle")
              => result'[p].kind = "error"]_vars

\* C6: once the busy query of the remote re-check failed, the book_appointment_tool
\* call does nothing further: its next step creates no event, inserts no appointment
\* and sends no email, and returns an error payload.
C6_FailedRecheckStops ==
    [][\A p \in Workers :
          (args[p].op = BOOK /\ "free/busy HttpError" \in loc[p].log /\ pc'[p] # pc[p])
              => /\ events' = events
                 /\ appointments' = appointments
                 /\ outbox' = outbox
                 /\ result'[p].kind = "error"]_vars

\* the busy intervals the calendar holds for the window the re-check of p asks about
RecheckWindowBusy(p) ==
    {b \in CalendarBusy :
        /\ b.start < ZuluInstant(AddMinutes(loc[p].start, SLOT_MINUTES))
        /\ b.end > ZuluInstant(loc[p].start)}

SlotTakenFor(p) ==
    LET pd == StrptimeDate(args[p].date)
    IN  /\ pd[1]
        /\ ParseTimeSlot(args[p].time_slot)[1]
        /\ \E a \in appointments :
              /\ a.doctor_id = loc[p].doctor_id
              /\ a.appointment_date = [date |-> pd[2], minutes |-> 0]
              /\ a.time_slot = args[p].time_slot

\* C8: when the local check of book_appointment_tool finds an appointment for the
\* doctor, date and slot, the call ends in that step with the conflict error and
\* changes nothing: no calendar query follows, no event is created, no appointment
\* is inserted, no email is sent.
C8_LocalConflictNoEffect ==
    [][\A p \in Workers :
          (pc[p] = "bk_local" /\ pc'[p] # "bk_local" /\ SlotTakenFor(p))
              => /\ pc'[p] = "idle"
                 /\ result'[p] = ErrorPayload(BOOK, "Time slot already booked")
                 /\ UNCHANGED <<patients, appointments, events, external_busy, outbox>>]_vars

C8_Witness ==
    \E p \in Workers : result[p] = ErrorPayload(BOOK, "Time slot already booked")

\* the 16 slot labels "09:00" .. "16:30", in ascending order
SixteenSlots ==
    <<<<48, 57, 58, 48, 48>>,
      <<48, 57, 58, 51, 48>>,
      <<49, 48, 58, 48, 48>>,
      <<49, 48, 58, 51, 48>>,
      <<49, 49, 58, 48, 48>>,
      <<49, 49, 58, 51, 48>>,
      <<49, 50, 58, 48, 48>>,
      <<49, 50, 58, 51, 48>>,
      <<49, 51, 58, 48, 48>>,
      <<49, 51, 58, 51, 48>>,
      <<49, 52, 58, 48, 48>>,
      <<49, 52, 58, 51, 48>>,
      <<49, 53, 58, 48, 48>>,
      <<49, 53, 58, 51, 48>>,
      <<49, 54, 58, 48, 48>>,
      <<49, 54, 58, 51, 48>>>>

IsAscending(s) == \A i \in 1..(Len(s) - 1) : StrLess(s[i], s[i + 1])

\* C9: the available_slots of every success payload of check_doctor_availability_tool
\* holds only labels of the 16-slot enumeration, holds none twice and is in ascending
\* order.
C9_SlotsWellFormed ==
    \A p \in Workers :
        IsCheckSuccess(result[p])
            => LET s == result[p].available_slots
               IN  /\ Range(s) \subseteq Range(SixteenSlots)
                   /\ Cardinality(Range(s)) = Len(s)
                   /\ IsAscending(s)

C9_Witness ==
    \E p \in Workers :
        /\ IsCheckSuccess(result[p])
        /\ Len(result[p].available_slots) \in {14, 15}

\* the slot labels of the doctor's appointments on the date that are in an active status
ActiveSlotLabels(doctor_id, date) ==
    {a.time_slot : a \in {x \in appointments : /\ x.doctor_id = doctor_id
                                                /\ x.appointment_date.date = date
                                                /\ x.status \in ActiveStatuses}}

\* C10: a check_doctor_availability_tool call that has found the doctor and read the
\* date returns a success payload, and the list it computes from the store is exactly
\* the 16-slot enumeration minus the labels of the doctor's active appointments on the
\* date (a call that reaches the store was told of no busy interval, so the remote
\* part of the union is empty there); a completed appointment does not remove its slot.
C10_ExactlyFreeSlots ==
    [][\A p \in Workers :
          (/\ pc[p] \in {"ck_remote", "ck_local"}
           /\ "free/busy HttpError" \notin loc[p].log
           /\ pc'[p] = "idle")
              => /\ result'[p].kind = "success"
                 /\ pc[p] = "ck_local" =>
                        result'[p].available_slots =
                            FilterOut(SixteenSlots,
                                      ActiveSlotLabels(loc[p].doctor_id, loc[p].date_obj))]_vars


\* the step in which p's availability call returns or fails
CheckEnds(p) == pc[p] \in {"ck_remote", "ck_local"} /\ pc'[p] = "idle"

\* C11: an availability call made after book_appointment_tool has booked a slot of
\* the same doctor and date returns a slot list, and the list does not contain the
\* booked slot.
C11_BookedSlotExcluded ==
    [][\A p \in Workers :
          CheckEnds(p) =>
              \A a \in ToolRows :
                  (a.doctor_id = loc[p].doctor_id /\ a.appointment_date.date = loc[p].date_obj)
                      => /\ IsCheckSuccess(result'[p])
                         /\ a.time_slot \notin Range(result'[p].available_slots)]_vars

\* a step of p inside check_doctor_availability_tool, its first one included
CheckStep(p) ==
    \/ pc[p] \in {"ck_remote", "ck_local"} /\ pc'[p] # pc[p]
    \/ pc[p] = "idle" /\ (args'[p].op = CHECK \/ result'[p].op = CHECK)

SameQuery(r1, r2) == r1.doctor_name = r2.doctor_name /\ r1.date = r2.date

\* C12: with no booking and no change of the calendar in between, two availability
\* calls for the same doctor and date that return a slot list return the same list,
\* and no step of an availability call changes the store, the calendar or the outbox.
C12_RepeatableReadOnly ==
    /\ [](\A p, q \in Workers :
            (IsCheckSuccess(result[p]) /\ IsCheckSuccess(result[q])
             /\ SameQuery(result[p], result[q]))
                => result[p].available_slots = result[q].available_slots)
    /\ [][\A p \in Workers :
            CheckStep(p) => UNCHANGED <<patients, appointments, events, external_busy,
                                        outbox>>]_vars

C12_Witness ==
    \E p, q \in Workers :
        /\ p # q
        /\ IsCheckSuccess(result[p]) /\ IsCheckSuccess(result[q])
        /\ SameQuery(result[p], result[q])
        /\ Len(result[p].available_slots) = 15


\* C13: every success payload of book_appointment_tool belongs to a committed
\* appointment and tells the notification outcome as it was: it says the email was
\* sent exactly when the send succeeded.
C13_NotificationOutcomeReported ==
    \A p \in Workers :
        IsBookSuccess(result[p])
            => /\ \E a \in appointments : a.id = result[p].appointment_id
               /\ result[p].email_said_sent = (result[p].appointment_id \in outbox)


PatientsWithEmail(email) == {q \in patients : q.email = email}

\* C14: no two Patient rows share an email; the upsert of book_appointment_tool
\* reuses the row that has the email and leaves it as it is, and otherwise adds
\* exactly one row with the given name and email.
C14_PatientUpsert ==
    /\ [](\A a, b \in patients : a.email = b.email => a = b)
    /\ [][\A p \in Workers :
            (pc[p] \in {"bk_patient", "bk_create_patient"} /\ pc'[p] # pc[p])
                => LET old == PatientsWithEmail(args[p].patient_email)
                   IN  IF old # {} THEN
                           /\ patients' = patients
                           /\ pc'[p] = "bk_local" => loc'[p].patient_id \in {q.id : q \in old}
                       ELSE IF pc[p] = "bk_patient" THEN
                           patients' = patients /\ pc'[p] = "bk_create_patient"
                       ELSE
                           /\ Cardinality(patients') = Cardinality(patients) + 1
                           /\ \E q \in patients' \ patients :
                                 /\ q.name = args[p].patient_name
                                 /\ q.email = args[p].patient_email
                                 /\ loc'[p].patient_id = q.id]_vars

C14_Witness ==
    \E p \in Workers :
        /\ pc[p] = "bk_local"
        /\ args[p].patient_name = "Ravi"
        /\ \E q \in patients : q.id = loc[p].patient_id /\ q.name = "Asha"

\* C15: a book_appointment_tool call that attempts to create the Patient goes on
\* with its booking, holding a Patient row, also when another call has created the
\* row for the same email in the meantime.
C15_CreationRaceSurvived ==
    [][\A p \in Workers :
          (pc[p] = "bk_create_patient" /\ pc'[p] # pc[p])
              => pc'[p] = "bk_local" /\ loc'[p].patient_id # 0]_vars

\* C16: when book_appointment_tool returns an error from a step before the insert of
\* the Appointment (parsing, local check, remote re-check, event creation), the call
\* has written no row: no Patient and no Appointment.
C16_ErrorLeavesNoRows ==
    [][\A p \in Workers :
          (/\ pc[p] \in {"bk_local", "bk_recheck", "bk_event"}
           /\ pc'[p] = "idle"
           /\ result'[p].kind = "error")
              => /\ ~loc[p].patient_created
                 /\ patients' = patients
                 /\ appointments' = appointments]_vars


C18_OnlyEnumeratedSlotsStored ==
    \A a \in ToolRows : a.time_slot \in Range(SixteenSlots)


TOOLS == {BOOK, CHECK}

\* C19: every call of a tool entry point ends by returning a success payload or an
\* error payload; none ends in an exception that leaves the tool.
C19_NoUnhandledFault ==
    \A p \in Workers :
        result[p].op \in TOOLS => result[p].kind \in {"success", "error"}

\* the busy intervals put on the calendar that lie within the working day of date,
\* in the doctor's wall-clock time
WorkingDayBusy(date) ==
    {b \in external_busy :
        /\ KolkataInstant(Combine(date, FIRST_HOUR, 0)) <= b.start
        /\ b.end <= KolkataInstant(Combine(date, END_HOUR, 0))}

\* the wall-clock label "HH:MM" of an instant
LabelAt(t) ==
    LET m == (t + TZ_OFFSET_MINUTES) % MINUTES_PER_DAY
    IN  SlotLabel(m \div 60, m % 60)

\* the labels s, s + 30 min, ... strictly before e of a busy interval [s, e)
BusyLabels(b) ==
    {LabelAt(b.start + SLOT_MINUTES * k) :
        k \in 0..((b.end - b.start - 1) \div SLOT_MINUTES)}

\* C20: an availability call that is answered by the calendar (the query did not
\* fail) returns a slot list, and the list contains none of the labels of a
\* slot-aligned busy interval that lies within the working day of the date.
C20_BusyLabelsExcluded ==
    [][\A p \in Workers :
          (CheckEnds(p) /\ "free/busy HttpError" \notin loc[p].log)
              => \A b \in WorkingDayBusy(loc[p].date_obj) :
                     /\ IsCheckSuccess(result'[p])
                     /\ BusyLabels(b) \cap Range(result'[p].available_slots) = {}]_vars


\* the instants at which the grid slots of the working day of date begin
GridStarts(date) ==
    {KolkataInstant(Combine(date, FIRST_HOUR, 0)) + SLOT_MINUTES * k :
        k \in 0..(2 * (END_HOUR - FIRST_HOUR) - 1)}

\* the wall-clock labels of the grid slots [t, t + 30 min) that the busy interval b meets
OverlappedLabels(b, date) ==
    {LabelAt(t) : t \in {u \in GridStarts(date) : b.start < u + SLOT_MINUTES /\ u < b.end}}

\* C21: an availability call that is answered by the calendar (the query did not
\* fail) returns a slot list, and the list contains no slot that a busy interval on
\* the doctor's calendar overlaps, also when the interval's bounds are off the grid.
C21_OverlappedSlotsExcluded ==
    [][\A p \in Workers :
          (CheckEnds(p) /\ "free/busy HttpError" \notin loc[p].log /\ gcal_service)
              => \A b \in external_busy :
                     OverlappedLabels(b, loc[p].date_obj) # {}
                         => /\ IsCheckSuccess(result'[p])
                            /\ OverlappedLabels(b, loc[p].date_obj)
                                   \cap Range(result'[p].available_slots) = {}]_vars


\* C22: a total_patients report for an existing doctor returns a payload whose count
\* is the number of the doctor's appointments with status completed.
C22_TotalCountsCompleted ==
    [][\A p \in Workers :
          (pc[p] = "rp_total" /\ pc'[p] = "idle")
              => /\ result'[p].kind = "success"
                 /\ result'[p].count =
                        Cardinality({a \in appointments : /\ a.doctor_id = loc[p].doctor_id
                                                          /\ a.status = "completed"})]_vars

\* the doctor's appointments whose appointment_date lies on the calendar date
RowsOnDay(doctor_id, date) ==
    {a \in appointments : a.doctor_id = doctor_id /\ a.appointment_date.date = date}

\* C23: a daily report returns the number of all the doctor's appointments on the
\* date, whatever their status, with one (patient name, slot, status) entry per
\* counted appointment; a report of an unknown type returns the informational
\* message payload.
C23_DailyCountsAllRows ==
    [][\A p \in Workers :
          /\ (pc[p] = "rp_daily" /\ pc'[p] = "idle")
                => LET rows == RowsOnDay(loc[p].doctor_id, loc[p].date_obj)
                   IN  /\ result'[p].kind = "success"
                       /\ result'[p].count = Cardinality(rows)
                       /\ Len(result'[p].details) = Cardinality(rows)
                       /\ \A a \in rows :
                             \E i \in 1..Len(result'[p].details) :
                                 /\ result'[p].details[i].time_slot = a.time_slot
                                 /\ result'[p].details[i].status = a.status
          /\ (pc[p] = "idle" /\ result'[p].op = REPORT /\ result'[p].doctor_name # ""
              /\ result'[p].report_type \notin {"daily", "total_patients"})
                => /\ result'[p].kind = "success"
                   /\ result'[p].tag = "Report type not recognized"]_vars


AppointmentIds == {a.id : a \in appointments}

\* the rows a step adds
InsertedRows == {a \in appointments' : a.id \notin AppointmentIds}

\* C24: a row inserted by book_appointment_tool is confirmed and a row inserted by
\* book_appointment_direct is pending; every status is pending, confirmed or
\* completed; no step removes a row.
C24_Lifecycle ==
    [][/\ \A p \in Workers :
            /\ (pc[p] = "bk_insert" /\ pc'[p] # "bk_insert")
                  => \A a \in InsertedRows : a.status = "confirmed"
            /\ (pc[p] = "dr_insert" /\ pc'[p] # "dr_insert")
                  => \A a \in InsertedRows : a.status = "pending"
       /\ \A a \in appointments' : a.status \in {"pending", "confirmed", "completed"}
       /\ AppointmentIds \subseteq {a.id : a \in appointments'}
       /\ Cardinality(appointments') >= Cardinality(appointments)]_vars

\* a tool row, confirmed, next to a direct row, pending
C24_Witness ==
    \E a, b \in appointments :
        /\ a.via = BOOK /\ a.status = "confirmed"
        /\ b.via = DIRECT /\ b.status = "pending"


\* C25: when the insert of the Appointment fails in the storage layer, no Appointment
\* row remains and the request ends in a fault, not in an ordinary result.
C25_InsertFailurePropagates ==
    [][\A p \in Workers :
          (pc[p] = "bk_insert" /\ pc'[p] = "idle" /\ ~IsBookSuccess(result'[p]))
              => /\ appointments' = appointments
                 /\ result'[p].kind = "fault"]_vars


\* the rows stored by book_appointment_direct for the doctor on the calendar day
DirectRowsOnDay(doctor_id, date) ==
    {a \in appointments : /\ a.via = DIRECT
                          /\ a.doctor_id = doctor_id
                          /\ a.appointment_date.date = date}

\* C26: once book_appointment_direct has stored (doctor, datetime on day D, slot),
\* a slot list returned by check_doctor_availability_direct or by
\* check_doctor_availability_tool for the doctor and D does not contain the slot,
\* and book_appointment_direct does not accept the doctor and slot again for any
\* datetime on D.
C26_DirectBookingHoldsSlot ==
    [][\A p \in Workers :
          /\ (pc[p] \in {"av_query", "ck_remote", "ck_local"} /\ pc'[p] = "idle"
              /\ result'[p].kind = "success")
                => \A a \in DirectRowsOnDay(loc[p].doctor_id, loc[p].date_obj) :
                       a.time_slot \notin Range(result'[p].available_slots)
          /\ (pc[p] = "idle" /\ pc'[p] = "dr_insert")
                => \A a \in DirectRowsOnDay(args'[p].doctor_id,
                                            args'[p].appointment_date.date) :
                       a.time_slot # args'[p].time_slot]_vars


\* the step ends a register_user call of p with an HTTP 400
RegisterFails400(p) ==
    /\ pc'[p] = "idle"
    /\ result'[p].op = REGISTER
    /\ result'[p].kind = "http_error"
    /\ (pc[p] # "idle" \/ result'[p] # result[p])

\* C27: a register_user call that ends with HTTP 400 has added no User and no
\* Patient row (the model has no step that adds a Doctor row).
C27_RegisterAllOrNothing ==
    [][\A p \in Workers :
          RegisterFails400(p)
              => /\ users' = users
                 /\ patients' = patients
                 /\ loc[p].user_id = 0]_vars

====
